---- MODULE Spec2Model ----
(***************************************************************************)
(* Model of src/file-processing/process_csv.py: the CSVProcessor class and  *)
(* the driver main().                                                       *)
(*                                                                          *)
(* A DataFrame is a record [cols, rows]: cols is the sequence of column     *)
(* labels, rows the sequence of rows, each row a sequence of cells aligned  *)
(* with cols.  A label is a sequence of characters, because select_columns  *)
(* parses its request string with split(',') and strip().  A cell is a      *)
(* record [t, v]: t is "num", "str" or "null" (pandas NaN), v the number or *)
(* the rank of the string literal.                                          *)
(*                                                                          *)
(* The command-line values (argparse namespace) are each read exactly once  *)
(* by main(), at the stage that uses them; each is drawn with \E at the     *)
(* action that reads it.                                                    *)
(***************************************************************************)
EXTENDS Integers, Sequences, FiniteSets, TLC

VARIABLES pc, df, original_rows, exit_code, ran, saved, call, stdout, summary,
          logged

vars == <<pc, df, original_rows, exit_code, ran, saved, call, stdout, summary,
          logged>>

(***************************************************************************)
(* Bounds of the model.                                                     *)
(***************************************************************************)
MaxRows == 3
MaxReq == 3
MaxSubset == 2

(***************************************************************************)
(* Cells.                                                                   *)
(***************************************************************************)
Null == [t |-> "null", v |-> 0]
Num(n) == [t |-> "num", v |-> n]
Str(n) == [t |-> "str", v |-> n]

\* the string literals used, by rank: "N/A" < "x" in Python's str ordering
StrNA == Str(1)
StrX == Str(2)

isnull(c) == c.t = "null"

Range(s) == {s[i] : i \in DOMAIN s}

RECURSIVE SeqSum(_)
SeqSum(s) == IF s = <<>> THEN 0 ELSE Head(s) + SeqSum(Tail(s))

RECURSIVE Concat(_)
Concat(ss) == IF ss = <<>> THEN <<>> ELSE Head(ss) \o Concat(Tail(ss))

\* the positions of 1..n that are in S, ascending
Positions(n, S) == SelectSeq([i \in 1..n |-> i], LAMBDA i : i \in S)

Take(s, idx) == [j \in 1..Len(idx) |-> s[idx[j]]]

(***************************************************************************)
(* DataFrames.                                                              *)
(***************************************************************************)
NoneDF == [cols |-> <<>>, rows |-> <<>>]

NRows(d) == Len(d.rows)
NCols(d) == Len(d.cols)

\* positions of the columns labelled name
Locs(d, name) == Positions(NCols(d), {i \in 1..NCols(d) : d.cols[i] = name})

\* df.isnull().sum().sum()
NullCount(d) ==
    SeqSum([r \in 1..NRows(d) |->
              Cardinality({c \in 1..NCols(d) : isnull(d.rows[r][c])})])

\* the rows of d at the positions idx, columns unchanged
TakeRows(d, idx) == [cols |-> d.cols, rows |-> Take(d.rows, idx)]

(***************************************************************************)
(* select_columns: parsing of the request and df[col_list].                 *)
(***************************************************************************)
\* str.split(','): the pieces between the commas (always at least one piece)
RECURSIVE split(_, _)
split(s, cur) ==
    IF s = <<>> THEN <<cur>>
    ELSE IF Head(s) = "," THEN <<cur>> \o split(Tail(s), <<>>)
    ELSE split(Tail(s), Append(cur, Head(s)))

RECURSIVE lstrip(_)
lstrip(s) == IF s # <<>> /\ Head(s) = " " THEN lstrip(Tail(s)) ELSE s

RECURSIVE rstrip(_)
rstrip(s) ==
    IF s # <<>> /\ s[Len(s)] = " " THEN rstrip(SubSeq(s, 1, Len(s) - 1)) ELSE s

strip(s) == rstrip(lstrip(s))

\* [c.strip() for c in columns.split(',')]
col_list(columns) ==
    LET parts == split(columns, <<>>) IN [i \in DOMAIN parts |-> strip(parts[i])]

\* mutant: only the first requested name that is absent is reported
missing_first(d, names) ==
    LET idx == Positions(Len(names),
                         {i \in 1..Len(names) : names[i] \notin Range(d.cols)})
    IN  IF idx = <<>> THEN {} ELSE {names[idx[1]]}

\* set(col_list) - set(self.df.columns)
missing(d, names) == Range(names) \ Range(d.cols)

\* self.df[col_list]: for each requested label, in request order, every column
\* carrying that label
getitem(d, names) ==
    LET idx == Concat([i \in DOMAIN names |-> Locs(d, names[i])])
    IN  [cols |-> Take(d.cols, idx),
         rows |-> [r \in 1..NRows(d) |-> Take(d.rows[r], idx)]]

(***************************************************************************)
(* remove_duplicates: df.drop_duplicates(subset), keep='first'.  NaN equals *)
(* NaN when rows are compared.  The argument subset is None (all columns)   *)
(* or a list of labels, which may be empty, repeat a label or name a label  *)
(* the DataFrame does not carry.                                            *)
(***************************************************************************)
None == [given |-> FALSE, names |-> <<>>]
List(names) == [given |-> TRUE, names |-> names]

\* DataFrame.empty: no rows or no columns
empty(d) == NRows(d) = 0 \/ NCols(d) = 0

\* drop_duplicates raises: KeyError when the list names a label that is not
\* a column, ValueError when the list is empty (no key column to unpack).
\* An empty DataFrame is returned before subset is looked at.
DropRaises(d, subset) ==
    /\ ~empty(d)
    /\ subset.given
    /\ \/ Range(subset.names) \ Range(d.cols) # {}
       \/ subset.names = <<>>

\* the key columns; used where DropRaises is false, so every name in the
\* list is a label of d
SubsetLocs(d, subset) ==
    IF ~subset.given THEN [i \in 1..NCols(d) |-> i]
    ELSE Positions(NCols(d),
                   {i \in 1..NCols(d) : d.cols[i] \in Range(subset.names)})

KeyOf(d, r, subset) == Take(d.rows[r], SubsetLocs(d, subset))

drop_duplicates(d, subset) ==
    IF empty(d) THEN d
    ELSE TakeRows(d, Positions(NRows(d),
        {r \in 1..NRows(d) :
            \A q \in 1..(r - 1) : KeyOf(d, q, subset) # KeyOf(d, r, subset)}))

(***************************************************************************)
(* fill_missing: df.dropna() and df.fillna(value).                          *)
(***************************************************************************)
\* mutant: how='all', only the rows that are null in every column go
dropna_all(d) ==
    TakeRows(d, Positions(NRows(d),
        {r \in 1..NRows(d) : \E c \in 1..NCols(d) : ~isnull(d.rows[r][c])}))

dropna(d) ==
    TakeRows(d, Positions(NRows(d),
        {r \in 1..NRows(d) : \A c \in 1..NCols(d) : ~isnull(d.rows[r][c])}))

fillna(d, value) ==
    [cols |-> d.cols,
     rows |-> [r \in 1..NRows(d) |->
                 [c \in 1..NCols(d) |->
                    IF isnull(d.rows[r][c]) THEN value ELSE d.rows[r][c]]]]

(***************************************************************************)
(* filter_rows: df.query(filter_expr).  An expression is a comparison of a  *)
(* column with a literal: [col, op, lit], op one of ">" and "==".           *)
(***************************************************************************)
\* does the comparison (cell op lit) raise TypeError: ordering a str against
\* a number does, "==" never does, NaN never does
CompareRaises(cell, e) == e.op = ">" /\ ~isnull(cell) /\ cell.t # e.lit.t

\* the value of (cell op lit); any comparison with NaN is False
Compare(cell, e) ==
    /\ ~isnull(cell)
    /\ cell.t = e.lit.t
    /\ IF e.op = ">" THEN cell.v > e.lit.v ELSE cell.v = e.lit.v

\* can query evaluate e on d: the column must exist and no comparison raise
QueryFails(d, e) ==
    \/ Locs(d, e.col) = <<>>
    \/ \E r \in 1..NRows(d) : CompareRaises(d.rows[r][Locs(d, e.col)[1]], e)

query(d, e) ==
    TakeRows(d, Positions(NRows(d),
        {r \in 1..NRows(d) : Compare(d.rows[r][Locs(d, e.col)[1]], e)}))

(***************************************************************************)
(* sort_data: df.sort_values(by, ascending), kind='quicksort' (the default), *)
(* na_position='last' (the default).                                        *)
(***************************************************************************)
\* the permutations of the positions in the sequence idx
Perms(idx) ==
    {p \in [1..Len(idx) -> Range(idx)] :
        \A i, j \in 1..Len(idx) : i # j => p[i] # p[j]}

\* sort_values raises: ValueError when the label is not unique, TypeError
\* when str and numbers have to be ordered against each other
SortRaises(d, by) ==
    \/ Len(Locs(d, by)) > 1
    \/ \E r, q \in 1..NRows(d) :
          LET c == Locs(d, by)[1] IN
          /\ ~isnull(d.rows[r][c]) /\ ~isnull(d.rows[q][c])
          /\ d.rows[r][c].t # d.rows[q][c].t

\* mutant: the null keys follow the direction, first when descending
SortOrders_nullsflip(d, by, ascending) ==
    LET c == Locs(d, by)[1]
        nn == Positions(NRows(d), {r \in 1..NRows(d) : ~isnull(d.rows[r][c])})
        na == Positions(NRows(d), {r \in 1..NRows(d) : isnull(d.rows[r][c])})
        key(r) == d.rows[r][c].v
    IN  {IF ascending THEN p \o na ELSE na \o p : p \in {q \in Perms(nn) :
            \A i \in 1..(Len(nn) - 1) :
                IF ascending THEN key(q[i]) <= key(q[i + 1])
                ELSE key(q[i]) >= key(q[i + 1])}}

\* the orders quicksort may produce: the non-null keys ordered by value (the
\* order among equal keys is not specified for quicksort), then the rows with
\* a null key in their original order
SortOrders(d, by, ascending) ==
    LET c == Locs(d, by)[1]
        nn == Positions(NRows(d), {r \in 1..NRows(d) : ~isnull(d.rows[r][c])})
        na == Positions(NRows(d), {r \in 1..NRows(d) : isnull(d.rows[r][c])})
        key(r) == d.rows[r][c].v
    IN  {p \o na : p \in {q \in Perms(nn) :
            \A i \in 1..(Len(nn) - 1) :
                IF ascending THEN key(q[i]) <= key(q[i + 1])
                ELSE key(q[i]) >= key(q[i + 1])}}

sort_values(d, by, ascending) ==
    {TakeRows(d, p) : p \in SortOrders(d, by, ascending)}

(***************************************************************************)
(* The methods of CSVProcessor.  Each gives the set of its possible         *)
(* outcomes on the DataFrame d: the DataFrame afterwards, the value         *)
(* returned ("True", "False", "None", or "raise" for an exception that       *)
(* leaves the method) and the names the logged error reports.               *)
(***************************************************************************)
Outcome(d, ret, log) == [df |-> d, ret |-> ret, log |-> log]

select_columns(d, columns) ==
    IF columns = <<>> THEN {Outcome(d, "None", {})}
    ELSE LET names == col_list(columns) IN
         IF missing(d, names) # {} THEN {Outcome(d, "False", missing(d, names))}
         ELSE {Outcome(getitem(d, names), "True", {})}

\* mutant: the difference taken the wrong way round
filtered_rows_swapped(initial, d) == NRows(d) - NRows(initial)

\* filtered_rows = initial_rows - len(self.df)
filtered_rows(initial, d) == NRows(initial) - NRows(d)

\* the figures filter_rows logs after a successful query
FilterLog(initial, d) ==
    [removed |-> filtered_rows(initial, d), remaining |-> NRows(d)]

\* With a label carried by several columns, whether query resolves the name
\* depends on the pandas version: it either evaluates on that column (the
\* columns under one label are copies of each other) or raises, which the
\* except clause turns into False.
\* NoExpr stands for the empty expression ('' or None): True at once.
NoExpr == [col |-> <<>>, op |-> "", lit |-> Null]

filter_rows(d, e) ==
    IF e = NoExpr THEN {Outcome(d, "True", {})}
    ELSE IF QueryFails(d, e) THEN {Outcome(d, "False", {})}
    ELSE {Outcome(query(d, e), "True", {})}
         \cup (IF Len(Locs(d, e.col)) > 1 THEN {Outcome(d, "False", {})} ELSE {})

sort_data(d, sort_column, ascending) ==
    IF sort_column = <<>> THEN {Outcome(d, "True", {})}
    ELSE IF sort_column \notin Range(d.cols) THEN {Outcome(d, "False", {sort_column})}
    ELSE IF SortRaises(d, sort_column) THEN {Outcome(d, "raise", {})}
    ELSE {Outcome(s, "True", {}) : s \in sort_values(d, sort_column, ascending)}

\* line 111 is not inside a try: what drop_duplicates raises leaves the method
remove_duplicates(d, subset) ==
    IF DropRaises(d, subset) THEN {Outcome(d, "raise", {})}
    ELSE {Outcome(drop_duplicates(d, subset), "True", {})}

\* value Null stands for None
fill_missing(d, method, value) ==
    IF NullCount(d) = 0 THEN {Outcome(d, "True", {})}
    ELSE IF method = "drop" THEN {Outcome(dropna(d), "True", {})}
    ELSE IF method = "fill"
         THEN {Outcome(fillna(d, IF value # Null THEN value ELSE Num(0)), "True", {})}
    ELSE {Outcome(d, "True", {})}

\* file_format is the suffix of the output path; io is whether the write
\* succeeds (for xlsx/excel: openpyxl is installed and the write succeeds).
\* to_json(orient='records') raises ValueError on labels that are not unique.
IsUnique(names) == \A i, j \in DOMAIN names : i # j => names[i] # names[j]

save_file(d, file_format, io) ==
    IF file_format \in {"csv", "txt"} THEN io
    ELSE IF file_format \in {"xlsx", "excel"} THEN io
    ELSE IF file_format = "json" THEN io /\ IsUnique(d.cols)
    ELSE FALSE

\* show_info: one line per column: label, dtype, null count
dtype(d, c) ==
    IF NRows(d) = 0 \/ \E r \in 1..NRows(d) : d.rows[r][c].t = "str" THEN "object"
    ELSE IF \E r \in 1..NRows(d) : isnull(d.rows[r][c]) THEN "float64"
    ELSE "int64"

show_info(d) ==
    [c \in 1..NCols(d) |->
        [col |-> d.cols[c], dtype |-> dtype(d, c),
         nulls |-> Cardinality({r \in 1..NRows(d) : isnull(d.rows[r][c])})]]

show_summary(d, orig) ==
    [original |-> orig, final |-> NRows(d), processed |-> orig - NRows(d),
     columns |-> NCols(d)]

(***************************************************************************)
(* Inputs.                                                                  *)
(***************************************************************************)
SeqsUpTo(S, n) == UNION {[1..k -> S] : k \in 0..n}

A == <<"a">>
B == <<"b">>
C == <<"c">>

\* pd.read_csv of a readable file: header a (numbers) or a,b (numbers,
\* strings), an empty field is NaN
Files ==
    {[cols |-> <<A>>, rows |-> rs] :
        rs \in SeqsUpTo({<<Num(1)>>, <<Num(2)>>, <<Null>>}, MaxRows)}
    \cup {[cols |-> <<A, B>>, rows |-> rs] :
        rs \in SeqsUpTo({Num(1), Num(2), Null} \X {StrX, Null}, MaxRows)}

\* the --columns string, as its characters
Chars == {"a", "b", "c", ",", " "}
Requests == SeqsUpTo(Chars, MaxReq)

\* the --filter expressions: a > 1, b == "x"
FilterExprs == {[col |-> A, op |-> ">", lit |-> Num(1)],
                [col |-> B, op |-> "==", lit |-> StrX]}

SortColumns == {A, B, C}

\* the labels a subset list is made of; c is in no file
SubsetLabels == {A, B, C}
FillValues == {Null, StrNA}
Suffixes == {"csv", "txt", "xlsx", "excel", "json", "tsv"}

(***************************************************************************)
(* State.                                                                   *)
(***************************************************************************)
Running == -1

\* the last method call: its arguments, the DataFrame before it and what
\* it returned and logged
Call(op, before, o, names, flag, value) ==
    [op |-> op, before |-> before, ret |-> o.ret, log |-> o.log,
     names |-> names, flag |-> flag, value |-> value]

NoCall == Call("", NoneDF, Outcome(NoneDF, "None", {}), <<>>, FALSE, Null)

\* an entry of ran: a stage that was executed and what it returned
Ran(stage, ret) == [stage |-> stage, ret |-> ret]

\* the figures of filter_rows' "Filtered out ... rows, ... remaining" line
NoLog == [removed |-> 0, remaining |-> 0]

NoSummary == [original |-> 0, final |-> 0, processed |-> 0, columns |-> 0]

Init ==
    /\ pc = "load"
    /\ df = NoneDF
    /\ original_rows = 0
    /\ exit_code = Running
    /\ ran = <<>>
    /\ saved = FALSE
    /\ call = NoCall
    /\ stdout = <<>>
    /\ summary = NoSummary
    /\ logged = NoLog

(***************************************************************************)
(* main(): the stages in the order main runs them.                          *)
(***************************************************************************)
MainOrder == <<"load", "info", "select", "filter", "dedupe", "fill", "sort",
               "save", "summary", "done">>

\* mutant: main sorts before it fills
After_swapped(stage) ==
    IF stage = "dedupe" THEN "sort"
    ELSE IF stage = "sort" THEN "fill"
    ELSE IF stage = "fill" THEN "save"
    ELSE LET i == CHOOSE k \in DOMAIN MainOrder : MainOrder[k] = stage
         IN  MainOrder[i + 1]

\* the statement of main that follows stage
After(stage) ==
    LET i == CHOOSE k \in DOMAIN MainOrder : MainOrder[k] = stage
    IN  MainOrder[i + 1]

\* sys.exit(code), or an uncaught exception (status 1)
Exit(code) == exit_code' = code /\ pc' = "done"

\* the stage is not requested: main goes on
Skip(stage) ==
    /\ pc' = After(stage)
    /\ UNCHANGED <<df, original_rows, exit_code, ran, saved, call, stdout,
                   summary, logged>>

\* lines 244-246
Load ==
    /\ pc = "load"
    /\ \/ \E f \in Files :
            /\ df' = f
            /\ ran' = Append(ran, Ran("load", "True"))
            /\ original_rows' = NRows(f)
            /\ call' = Call("load", df, Outcome(f, "True", {}), <<>>, FALSE, Null)
            /\ pc' = After("load")
            /\ UNCHANGED exit_code
       \/ /\ call' = Call("load", df, Outcome(df, "False", {}), <<>>, FALSE, Null)
          /\ ran' = Append(ran, Ran("load", "False"))
          /\ Exit(1)
          /\ UNCHANGED <<df, original_rows, logged>>
    /\ UNCHANGED <<saved, stdout, summary, logged>>

\* mutant: main goes on after show_info
Info_noexit ==
    /\ pc = "info"
    /\ \/ /\ stdout' = show_info(df)
          /\ ran' = Append(ran, Ran("info", "None"))
          /\ pc' = After("info")
          /\ UNCHANGED <<df, original_rows, exit_code, saved, call, summary,
                         logged>>
       \/ Skip("info")

\* lines 248-251
Info ==
    /\ pc = "info"
    /\ \/ /\ stdout' = show_info(df)
          /\ ran' = Append(ran, Ran("info", "None"))
          /\ Exit(0)
          /\ UNCHANGED <<df, original_rows, saved, call, summary, logged>>
       \/ Skip("info")

\* lines 254-256
Select ==
    /\ pc = "select"
    /\ \E columns \in Requests :
         IF columns = <<>> THEN Skip("select")
         ELSE \E o \in select_columns(df, columns) :
                /\ df' = o.df
                /\ call' = Call("select", df, o, col_list(columns), FALSE, Null)
                /\ ran' = Append(ran, Ran("select", o.ret))
                /\ IF o.ret = "True"
                   THEN pc' = After("select") /\ UNCHANGED exit_code
                   ELSE Exit(1)
                /\ UNCHANGED <<original_rows, saved, stdout, summary, logged>>

\* lines 258-260
Filter ==
    /\ pc = "filter"
    /\ \/ Skip("filter")
       \/ \E e \in FilterExprs : \E o \in filter_rows(df, e) :
            /\ df' = o.df
            /\ call' = Call("filter", df, o, <<e.col>>, FALSE, e.lit)
            /\ ran' = Append(ran, Ran("filter", o.ret))
            /\ logged' = IF o.ret = "True" THEN FilterLog(df, o.df) ELSE logged
            /\ IF o.ret = "True"
               THEN pc' = After("filter") /\ UNCHANGED exit_code
               ELSE Exit(1)
            /\ UNCHANGED <<original_rows, saved, stdout, summary>>

\* lines 262-263
Dedupe ==
    /\ pc = "dedupe"
    /\ \/ Skip("dedupe")
       \/ \E o \in remove_duplicates(df, None) :
            /\ df' = o.df
            /\ call' = Call("dedupe", df, o, None.names, None.given, Null)
            /\ ran' = Append(ran, Ran("dedupe", o.ret))
            /\ IF o.ret = "raise"
               THEN Exit(1)
               ELSE pc' = After("dedupe") /\ UNCHANGED exit_code
            /\ UNCHANGED <<original_rows, saved, stdout, summary, logged>>

\* lines 265-266
Fill ==
    /\ pc = "fill"
    /\ \/ Skip("fill")
       \/ \E method \in {"drop", "fill"}, value \in FillValues :
          \E o \in fill_missing(df, method, value) :
            /\ df' = o.df
            /\ call' = Call("fill", df, o, <<>>, method = "fill", value)
            /\ ran' = Append(ran, Ran("fill", o.ret))
            /\ pc' = After("fill")
            /\ UNCHANGED <<original_rows, exit_code, saved, stdout, summary, logged>>

\* lines 268-269: the value sort_data returns is not looked at; an exception
\* out of sort_values ends the process with status 1
Sort ==
    /\ pc = "sort"
    /\ \/ Skip("sort")
       \/ \E by \in SortColumns, descending \in BOOLEAN :
          \E o \in sort_data(df, by, ~descending) :
            /\ df' = o.df
            /\ call' = Call("sort", df, o, <<by>>, ~descending, Null)
            /\ ran' = Append(ran, Ran("sort", o.ret))
            /\ IF o.ret = "raise"
               THEN Exit(1)
               ELSE pc' = After("sort") /\ UNCHANGED exit_code
            /\ UNCHANGED <<original_rows, saved, stdout, summary, logged>>

\* lines 271-273
Save ==
    /\ pc = "save"
    /\ \E suffix \in Suffixes, io \in BOOLEAN :
         LET ok == save_file(df, suffix, io) IN
         /\ saved' = ok
         /\ call' = Call("save", df,
                         Outcome(df, IF ok THEN "True" ELSE "False", {}),
                         <<>>, io, Null)
         /\ ran' = Append(ran, Ran("save", IF ok THEN "True" ELSE "False"))
         /\ IF ok THEN pc' = After("save") /\ UNCHANGED exit_code ELSE Exit(1)
         /\ UNCHANGED <<df, original_rows, stdout, summary, logged>>

\* lines 275-278
Summary ==
    /\ pc = "summary"
    /\ summary' = show_summary(df, original_rows)
    /\ Exit(0)
    /\ UNCHANGED <<df, original_rows, ran, saved, call, stdout, logged>>

Next == Load \/ Info \/ Select \/ Filter \/ Dedupe \/ Fill \/ Sort \/ Save \/ Summary

Spec == Init /\ [][Next]_vars

(***************************************************************************)
(* CSVProcessor used as a class: load_csv, then remove_duplicates with     *)
(* subset None or a list of labels, then, when the call returned, the same  *)
(* call again.                                                              *)
(***************************************************************************)
\* the values of subset: None and every list of up to MaxSubset labels, the
\* empty list, lists that repeat a label and lists with an absent label
\* included
Subsets == {None} \cup {List(s) : s \in SeqsUpTo(SubsetLabels, MaxSubset)}

ApiLoad ==
    /\ pc = "load"
    /\ \E f \in Files :
         /\ df' = f
         /\ original_rows' = NRows(f)
         /\ call' = Call("load", df, Outcome(f, "True", {}), <<>>, FALSE, Null)
    /\ ran' = Append(ran, Ran("load", "True"))
    /\ pc' = "api"
    /\ UNCHANGED <<exit_code, saved, stdout, summary, logged>>

\* an exception leaves the method and reaches the caller: no second call
ApiDedupe ==
    /\ pc = "api"
    /\ \E subset \in Subsets : \E o \in remove_duplicates(df, subset) :
         /\ df' = o.df
         /\ call' = Call("dedupe", df, o, subset.names, subset.given, Null)
         /\ ran' = Append(ran, Ran("dedupe", o.ret))
         /\ pc' = IF o.ret = "raise" THEN "done" ELSE "api2"
    /\ UNCHANGED <<original_rows, exit_code, saved, stdout, summary, logged>>

ApiDedupeAgain ==
    /\ pc = "api2"
    /\ \E o \in remove_duplicates(df, [given |-> call.flag, names |-> call.names]) :
         /\ df' = o.df
         /\ call' = Call("dedupe", df, o, call.names, call.flag, Null)
         /\ ran' = Append(ran, Ran("dedupe", o.ret))
    /\ pc' = "done"
    /\ UNCHANGED <<original_rows, exit_code, saved, stdout, summary, logged>>

\* filter_rows called on the class, the empty expression included
ApiFilter ==
    /\ pc = "api"
    /\ \E e \in FilterExprs \cup {NoExpr} : \E o \in filter_rows(df, e) :
         /\ df' = o.df
         /\ call' = Call("filter", df, o, <<e.col>>, FALSE, e.lit)
         /\ ran' = Append(ran, Ran("filter", o.ret))
         /\ logged' = IF e # NoExpr /\ o.ret = "True"
                      THEN FilterLog(df, o.df) ELSE logged
    /\ pc' = "done"
    /\ UNCHANGED <<original_rows, exit_code, saved, stdout, summary>>

NextAPI == ApiLoad \/ ApiDedupe \/ ApiDedupeAgain \/ ApiFilter

SpecAPI == Init /\ [][Next \/ NextAPI]_vars

(***************************************************************************)
(* Properties.                                                              *)
(***************************************************************************)
StagesRan == [i \in DOMAIN ran |-> ran[i].stage]

\* the i-th executed stage failed: it returned False or raised
Failed(i) == ran[i].ret \in {"False", "raise"}

Transforming == {"select", "filter", "dedupe", "fill", "sort"}

\* C1: when a stage of a run fails (load, select, filter, sort on an absent
\* column, save) no later stage is executed and the run ends with a non-zero
\* exit status; exit status 0 is reached only when every stage that ran
\* succeeded.
C1_ShortCircuit ==
    /\ \A i \in DOMAIN ran : Failed(i) => i = Len(ran)
    /\ pc = "done" => (exit_code = 0 <=> \A i \in DOMAIN ran : ~Failed(i))

\* C2: an output file is written, and save_file invoked at all, only if every
\* requested transforming stage completed successfully.
C2_NoPartialSuccess ==
    \A i \in DOMAIN ran :
        ran[i].stage \in Transforming /\ Failed(i)
            => ~saved /\ \A j \in DOMAIN ran : ran[j].stage # "save"

\* C3: the stages that execute do so in the order Load, Select Columns,
\* Filter Rows, Deduplicate, Fill Missing, Sort, Save, each at most once.
PipelineOrder == <<"load", "select", "filter", "dedupe", "fill", "sort", "save">>

RankOf(stage) == CHOOSE k \in DOMAIN PipelineOrder : PipelineOrder[k] = stage

C3_FixedOrder ==
    \A i, j \in DOMAIN ran :
        /\ ran[i].stage \in Range(PipelineOrder) \cup {"info"}
        /\ (i < j /\ ran[i].stage # "info" /\ ran[j].stage # "info")
              => RankOf(ran[i].stage) < RankOf(ran[j].stage)

C3_Witness == StagesRan = PipelineOrder

\* C4: select_columns with a request naming an absent column fails, reports
\* every requested name that is absent, leaves the Dataset as it was, and the
\* run ends with status 1 without saving.
Absent(names, d) ==
    {n \in Range(names) : \A c \in DOMAIN d.cols : d.cols[c] # n}

C4_SelectMissing ==
    (call.op = "select" /\ Absent(call.names, call.before) # {})
        => /\ call.ret = "False"
           /\ call.log = Absent(call.names, call.before)
           /\ df = call.before
           /\ pc = "done" /\ exit_code = 1 /\ ~saved
           /\ ran[Len(ran)] = Ran("select", "False")

C4_Witness ==
    /\ call.op = "select" /\ call.ret = "False"
    /\ call.before.cols = <<A>>
    /\ call.names = <<B, C>>
    /\ call.log = {B, C}

\* C5: an info-only run prints one descriptor per column and ends with exit
\* status 0 right after: no other stage executes, the Dataset is the loaded
\* one, nothing is saved.
C5_InfoOnly ==
    (\E i \in DOMAIN ran : ran[i].stage = "info")
        => /\ StagesRan = <<"load", "info">>
           /\ Len(stdout) = NCols(df)
           /\ \A c \in DOMAIN stdout : stdout[c].col = df.cols[c]
           /\ pc = "done" /\ exit_code = 0
           /\ ~saved
           /\ call.op = "load" /\ NRows(df) = original_rows

C5_Witness ==
    /\ StagesRan = <<"load", "info">>
    /\ NCols(df) = 2 /\ NRows(df) = MaxRows
    /\ Len(stdout) = 2

\* the cell of row r of d under the label name (the first column carrying it)
CellAt(d, r, name) ==
    d.rows[r][CHOOSE c \in 1..NCols(d) :
                  d.cols[c] = name /\ \A b \in 1..(c - 1) : d.cols[b] # name]

\* how often the row x occurs in d
Occurrences(d, x) == Cardinality({r \in 1..NRows(d) : d.rows[r] = x})

\* C6: after a successful sort_data on column X, in either direction, every
\* row with a null X comes after every row with a non-null X, adjacent
\* non-null values are ordered (<= ascending, >= descending), and the result
\* is a permutation of the input rows.
C6_Sorted ==
    (call.op = "sort" /\ call.ret = "True")
        => LET k(r) == CellAt(df, r, call.names[1]) IN
           /\ \A i, j \in 1..NRows(df) : (i < j /\ isnull(k(i))) => isnull(k(j))
           /\ \A i \in 1..(NRows(df) - 1) :
                 (~isnull(k(i)) /\ ~isnull(k(i + 1)))
                     => IF call.flag THEN k(i).v <= k(i + 1).v
                        ELSE k(i).v >= k(i + 1).v
           /\ df.cols = call.before.cols
           /\ NRows(df) = NRows(call.before)
           /\ \A x \in Range(df.rows) \cup Range(call.before.rows) :
                 Occurrences(df, x) = Occurrences(call.before, x)

C6_Witness ==
    /\ call.op = "sort" /\ call.ret = "True" /\ ~call.flag
    /\ call.names = <<A>>
    /\ NRows(df) = 3
    /\ isnull(CellAt(call.before, 1, A))
    /\ CellAt(call.before, 2, A) = Num(1)
    /\ CellAt(call.before, 3, A) = Num(2)
    /\ CellAt(df, 1, A) = Num(2) /\ isnull(CellAt(df, 3, A))

\* C7: remove_duplicates never fails: every call returns True and leaves
\* exactly the rows that are the first occurrence of their value on the given
\* subset of columns (all columns by default), in their original order;
\* applying it again changes nothing.
SameOn(d, q, r, given, names) ==
    \A c \in 1..NCols(d) :
        (~given \/ d.cols[c] \in Range(names)) => d.rows[q][c] = d.rows[r][c]

FirstOccurrences(d, given, names) ==
    {r \in 1..NRows(d) : \A q \in 1..(r - 1) : ~SameOn(d, q, r, given, names)}

C7_Dedupe ==
    call.op = "dedupe"
        => LET first == FirstOccurrences(call.before, call.flag, call.names) IN
           /\ call.ret = "True"
           /\ df.cols = call.before.cols
           /\ NRows(df) = Cardinality(first)
           /\ \E idx \in [1..NRows(df) -> first] :
                 /\ \A i, j \in 1..NRows(df) : i < j => idx[i] < idx[j]
                 /\ \A i \in 1..NRows(df) : df.rows[i] = call.before.rows[idx[i]]
           /\ \A o \in remove_duplicates(df, [given |-> call.flag,
                                                names |-> call.names]) :
                 o.df = df /\ o.ret = "True"
           /\ StagesRan = <<"load", "dedupe", "dedupe">> => df = call.before

\* C8: after fill_missing the Dataset has no null cell: drop keeps exactly
\* the rows without a null, in order; fill keeps every row and sets each null
\* cell to the replacement value (0 when none is given), the other cells
\* unchanged; without a null cell the Dataset is left as it was.
C8_Fill ==
    call.op = "fill"
        => /\ call.ret = "True"
           /\ NullCount(df) = 0
           /\ df.cols = call.before.cols
           /\ NullCount(call.before) = 0 => df = call.before
           /\ ~call.flag =>
                 df.rows = SelectSeq(call.before.rows,
                              LAMBDA row : \A c \in DOMAIN row : row[c] # Null)
           /\ call.flag =>
                 /\ NRows(df) = NRows(call.before)
                 /\ \A r \in 1..NRows(df) : \A c \in 1..NCols(df) :
                       df.rows[r][c] =
                           IF call.before.rows[r][c] # Null
                           THEN call.before.rows[r][c]
                           ELSE IF call.value = Null THEN Num(0) ELSE call.value

C8_Witness ==
    /\ call.op = "fill" /\ call.flag /\ call.value = Null
    /\ NCols(df) = 2 /\ NRows(df) = 3
    /\ NullCount(call.before) = 2
    /\ df.rows[2] = <<Num(0), StrX>>

\* C9: after a successful load the column names of the Dataset are pairwise
\* distinct and every column has the same row count (every row has one cell
\* per column), whatever the stages and the column-selection request.
C9_DatasetInvariant ==
    df # NoneDF
        => /\ \A i, j \in 1..NCols(df) : i # j => df.cols[i] # df.cols[j]
           /\ \A r \in 1..NRows(df) : Len(df.rows[r]) = NCols(df)

\* C10: sorting is stable: rows with equal sort-column values keep their
\* pre-sort relative order; select a,b, dedupe, fill "N/A", sort by a
\* ascending on rows (1,x),(2,null),(2,x) yields (1,x),(2,N/A),(2,x).
C10_StableSort ==
    (call.op = "sort" /\ call.ret = "True")
        => /\ \E p \in Perms([i \in 1..NRows(df) |-> i]) :
                 /\ df.rows = Take(call.before.rows, p)
                 /\ \A i, j \in 1..NRows(df) :
                       (i < j /\ CellAt(call.before, p[i], call.names[1])
                                   = CellAt(call.before, p[j], call.names[1]))
                           => p[i] < p[j]
           /\ (/\ StagesRan = <<"load", "select", "dedupe", "fill", "sort">>
               /\ call.names = <<A>> /\ call.flag
               /\ call.before.cols = <<A, B>>
               /\ call.before.rows = << <<Num(1), StrX>>, <<Num(2), StrNA>>,
                                        <<Num(2), StrX>> >>)
                 => df.rows = call.before.rows

\* C11: after a successful load original_rows stays the row count recorded at
\* load (only load writes it) and the current row count never exceeds it: no
\* stage increases the number of rows; for filter the logged removed count
\* plus the remaining count is the row count before the filter; the
\* summary's rows-removed figure (original minus final) is never negative.
C11_RowsState ==
    /\ (call.op = "load" /\ call.ret = "True") => original_rows = NRows(df)
    /\ df # NoneDF => NRows(df) <= original_rows
    /\ call.op \in Transforming => NRows(df) <= NRows(call.before)
    /\ (call.op = "filter" /\ call.ret = "True")
          => /\ logged.remaining = NRows(df)
             /\ logged.removed + logged.remaining = NRows(call.before)
             /\ logged.removed >= 0
    /\ summary # NoSummary
          => /\ summary.original = original_rows
             /\ summary.final = NRows(df)
             /\ summary.processed = original_rows - NRows(df)
             /\ summary.processed >= 0

C11_RowsNeverGrow ==
    /\ []C11_RowsState
    /\ [][/\ pc # "load" => original_rows' = original_rows
          /\ pc # "load" => NRows(df') <= NRows(df)]_vars

C11_Witness ==
    /\ pc = "done" /\ exit_code = 0
    /\ \E i \in DOMAIN ran : ran[i].stage = "filter"
    /\ logged.removed = 2
    /\ original_rows = 3
    /\ summary.processed = 3
    /\ summary.columns = 2

====
